---- MODULE Spec2Model ----
(***************************************************************************)
(* pi_stats_async: model of src/src/main.rs.                               *)
(*                                                                         *)
(* main loops forever: read the CPU frequency, resolve the CPU temperature *)
(* from the stream of temperature sensors, read the memory, print one      *)
(* status line, sleep one second.  A failed frequency or memory read       *)
(* leaves main through the ? operator.                                     *)
(*                                                                         *)
(* Temperatures are whole degrees Celsius, frequencies are Hz and memory   *)
(* is bytes.  heim's units::Frequency and units::Information are uom       *)
(* quantities over u64, so get::<megahertz>() and get::<mebibyte>() are    *)
(* integer divisions.  Writes to stdout are taken to succeed.              *)
(***************************************************************************)
EXTENDS Integers, Sequences, FiniteSets, TLC

\* ---------------------------------------------------------------- bounds
MaxLen == 3
MaxTicks == 2

\* ------------------------------------------------------- inputs of a run
\* Readings a sensor can report, in degrees Celsius.
Readings == {45, 50}
\* Labels a sensor can carry: Option<&str>, <<>> is None.
Labels == {<<>>, <<"Composite">>, <<"CPU">>, <<"Core 0">>}
\* Values cpu::frequency() can report, in Hz.
FreqValues == {1800000000, 1400500000}
\* Values memory::memory().available() can report, in bytes.
MemValues == {3145728, 537395200}
\* Underlying causes of a heim::Error.
Causes == {"io", "unsupported"}

\* Result<T, heim::Error> of a hardware query.
Ok(v) == [ok |-> TRUE, val |-> v, err |-> "none"]
Err(c) == [ok |-> FALSE, val |-> 0, err |-> c]
FreqResults == {Ok(v) : v \in FreqValues} \cup {Err(c) : c \in Causes}
MemResults == {Ok(v) : v \in MemValues} \cup {Err(c) : c \in Causes}

\* Items of the sensors::temperatures() stream: Ok(sensor) or Err(_).
SensorOk(l, r) == [ok |-> TRUE, label |-> l, current |-> r]
SensorErr == [ok |-> FALSE, label |-> <<>>, current |-> 0]
SensorItems == {SensorOk(l, r) : l \in Labels, r \in Readings} \cup {SensorErr}
SensorSeqs == UNION {[1..n -> SensorItems] : n \in 0..MaxLen}

\* ------------------------------------------------------------- constants
composite_label == "Composite"
cpu_label == "CPU"
temp_default_kelvin == 0 - 273
temp_default == 0
megahertz == 1000000
mebibyte == 1048576

\* What out holds: control sequences, rendered texts, and the flushes.
ERASE_LINE == [bytes |-> "\\x1b[2K", stats |-> <<>>]
CR == [bytes |-> "\\r", stats |-> <<>>]
FLUSH == [bytes |-> "", stats |-> <<>>]
Text(line) == [bytes |-> "{} Mhz / {} C / {} MiB", stats |-> <<line>>]

\* ------------------------------------------------------ HashMap<String,_>
HashMap_new == [k \in {} |-> 0]

insert_keep_first(m, k, v) ==
    [x \in DOMAIN m \cup {k} |-> IF x \in DOMAIN m THEN m[x] ELSE v]
insert(m, k, v) ==
    [x \in DOMAIN m \cup {k} |-> IF x = k THEN v ELSE m[x]]

\* HashMap::get: Option<&V>.
get(m, k) == IF k \in DOMAIN m THEN <<m[k]>> ELSE <<>>

\* sensor.label().unwrap_or("unknown")
label_or_unknown(l) == IF l = <<>> THEN "unknown" ELSE l[1]

\* Option::ok_or: Some(v) -> Ok(v), None -> Err(e).
ok_or(opt, e) ==
    IF opt # <<>> THEN [ok |-> TRUE, val |-> opt[1], err |-> <<>>]
                  ELSE [ok |-> FALSE, val |-> 0, err |-> e]

\* Result::unwrap_or: Ok(v) -> v, Err(_) -> d.
unwrap_or_panic(res, d) == IF res.ok THEN res.val ELSE 0 - 1
unwrap_or(res, d) == IF res.ok THEN res.val ELSE d

\* The selection expression that ends cpu_temperature.
select_cpu_first(m) ==
    unwrap_or(ok_or(get(m, cpu_label), get(m, composite_label)), temp_default)
select(m) ==
    unwrap_or(ok_or(get(m, composite_label), get(m, cpu_label)), temp_default)

\* ---------------------------------------------------- Display for PiStats
get_megahertz_rounded(hz) == (hz + (megahertz \div 2)) \div megahertz
get_megahertz(hz) == hz \div megahertz
get_mebibyte(bytes) == bytes \div mebibyte

fmt(freq, temp, mem) ==
    Text([mhz |-> get_megahertz(freq), c |-> temp, mib |-> get_mebibyte(mem)])

\* ------------------------------------------------------------------ state
VARIABLES
    pc,                  \* position in main / cpu_temperature
    tick,                \* iterations of the loop completed
    lines,               \* status lines flushed to the terminal
    out,                 \* writes to stdout in the current iteration
    cpu_frequency,       \* PiStats.cpu_frequency, Hz
    temperature,         \* PiStats.temperature, degrees Celsius
    memory_available,    \* PiStats.memory_available, bytes
    sensors,             \* the items the sensor stream holds
    pos,                 \* items of the stream taken by next()
    temperature_sensors, \* the label -> reading map
    main_result,         \* <<>> while main runs, <<error>> once it returned
    failed               \* the required read that failed, "none" if none

vars == <<pc, tick, lines, out, cpu_frequency, temperature, memory_available,
          sensors, pos, temperature_sensors, main_result, failed>>

Init ==
    /\ pc = "freq"
    /\ tick = 0
    /\ lines = 0
    /\ out = <<>>
    /\ cpu_frequency = 0
    /\ temperature = 0
    /\ memory_available = 0
    /\ sensors = <<>>
    /\ pos = 0
    /\ temperature_sensors = HashMap_new
    /\ main_result = <<>>
    /\ failed = "none"

\* The ? operator: an Err leaves main, an Ok gives its value.
swallows(r) == FALSE
propagates(r) == ~r.ok

\* The error ? returns: From<heim::Error> for heim::Error, the error as the
\* query gave it.  Nothing of main is added to it.
into_error(e) == [cause |-> e]

\* cpu::frequency().await?.current()
FrequencyRead ==
    /\ pc = "freq"
    /\ tick < MaxTicks
    /\ \E r \in FreqResults :
        /\ failed' = IF r.ok THEN failed ELSE "frequency"
        /\ IF propagates(r)
             THEN /\ main_result' = <<into_error(r.err)>>
                  /\ pc' = "done"
                  /\ UNCHANGED cpu_frequency
             ELSE /\ cpu_frequency' = r.val
                  /\ pc' = "temp"
                  /\ UNCHANGED main_result
    /\ UNCHANGED <<tick, lines, out, temperature, memory_available, sensors,
                   pos, temperature_sensors>>

\* cpu_temperature: the map is created, the stream is opened.
TemperaturesCall ==
    /\ pc = "temp"
    /\ temperature_sensors' = HashMap_new
    /\ sensors' \in SensorSeqs
    /\ pos' = 0
    /\ pc' = "sensors"
    /\ UNCHANGED <<tick, lines, out, cpu_frequency, temperature,
                   memory_available, main_result, failed>>

\* One evaluation of `while let Some(Ok(sensor)) = sensors.next().await`.
SensorsNext ==
    /\ pc = "sensors"
    /\ IF pos < Len(sensors)
         THEN LET item == sensors[pos + 1] IN
              /\ pos' = pos + 1
              /\ IF item.ok
                   THEN /\ temperature_sensors' =
                              insert(temperature_sensors,
                                     label_or_unknown(item.label), item.current)
                        /\ pc' = "sensors"
                   ELSE /\ pc' = "select"
                        /\ UNCHANGED temperature_sensors
         ELSE /\ pc' = "select"
              /\ UNCHANGED <<pos, temperature_sensors>>
    /\ UNCHANGED <<tick, lines, out, cpu_frequency, temperature,
                   memory_available, sensors, main_result, failed>>

\* The value cpu_temperature returns.
Select ==
    /\ pc = "select"
    /\ temperature' = select(temperature_sensors)
    /\ pc' = "mem"
    /\ UNCHANGED <<tick, lines, out, cpu_frequency, memory_available, sensors,
                   pos, temperature_sensors, main_result, failed>>

\* memory::memory().await?.available()
MemoryRead ==
    /\ pc = "mem"
    /\ \E r \in MemResults :
        /\ failed' = IF r.ok THEN failed ELSE "memory"
        /\ IF propagates(r)
             THEN /\ main_result' = <<into_error(r.err)>>
                  /\ pc' = "done"
                  /\ UNCHANGED memory_available
             ELSE /\ memory_available' = r.val
                  /\ pc' = "erase"
                  /\ UNCHANGED main_result
    /\ UNCHANGED <<tick, lines, out, cpu_frequency, temperature, sensors, pos,
                   temperature_sensors>>

\* print!("\x1b[2K")
PrintErase ==
    /\ pc = "erase"
    /\ out' = Append(out, ERASE_LINE)
    /\ pc' = "print"
    /\ UNCHANGED <<tick, lines, cpu_frequency, temperature, memory_available,
                   sensors, pos, temperature_sensors, main_result, failed>>

\* print!("{}\r", hardware_status)
PrintStats_cr_first ==
    /\ pc = "print"
    /\ out' = out \o <<CR, fmt(cpu_frequency, temperature, memory_available)>>
    /\ pc' = "flush"
    /\ UNCHANGED <<tick, lines, cpu_frequency, temperature, memory_available,
                   sensors, pos, temperature_sensors, main_result, failed>>
PrintStats ==
    /\ pc = "print"
    /\ out' = out \o <<fmt(cpu_frequency, temperature, memory_available), CR>>
    /\ pc' = "flush"
    /\ UNCHANGED <<tick, lines, cpu_frequency, temperature, memory_available,
                   sensors, pos, temperature_sensors, main_result, failed>>

\* io::stdout().flush().unwrap()
Flush ==
    /\ pc = "flush"
    /\ out' = Append(out, FLUSH)
    /\ lines' = lines + 1
    /\ pc' = "sleep"
    /\ UNCHANGED <<tick, cpu_frequency, temperature, memory_available,
                   sensors, pos, temperature_sensors, main_result, failed>>

\* sleep(Duration::from_secs(1)).await, then the next iteration: the
\* iteration's hardware_status and the sensor stream are gone; the map keeps
\* its last contents until the next call of cpu_temperature makes a new one.
Sleep ==
    /\ pc = "sleep"
    /\ tick' = tick + 1
    /\ out' = <<>>
    /\ cpu_frequency' = 0
    /\ temperature' = 0
    /\ memory_available' = 0
    /\ sensors' = <<>>
    /\ pos' = 0
    /\ pc' = "freq"
    /\ UNCHANGED <<lines, temperature_sensors, main_result, failed>>

Next ==
    \/ FrequencyRead
    \/ TemperaturesCall
    \/ SensorsNext
    \/ Select
    \/ MemoryRead
    \/ PrintErase
    \/ PrintStats
    \/ Flush
    \/ Sleep

Spec == Init /\ [][Next]_vars

\* ------------------------------------------------------- claim vocabulary
Max(S) == CHOOSE x \in S : \A y \in S : y <= x

\* cpu_temperature has returned in the current iteration.
Resolved == pc \in {"mem", "erase", "print", "flush", "sleep"}

\* Positions of the readable entries of the stream that carry label l.
Labeled(l) == {i \in 1..Len(sensors) : sensors[i].ok /\ sensors[i].label = <<l>>}
Unlabeled == {i \in 1..Len(sensors) : sensors[i].ok /\ sensors[i].label = <<>>}
Errors == {i \in 1..Len(sensors) : ~sensors[i].ok}
AllReadable == Errors = {}

\* The key an entry is stored under, and the readable entries taken so far
\* that are stored under key k.
KeyOf(i) == IF sensors[i].label = <<>> THEN "unknown" ELSE sensors[i].label[1]
TakenUnder(k) == {i \in 1..pos : sensors[i].ok /\ KeyOf(i) = k}

\* The values of the line written in the current iteration.
Shown == out[2].stats[1]

\* The errors main can return when the given read fails.
ErrorsOfFrequency == {into_error(r.err) : r \in {x \in FreqResults : ~x.ok}}
ErrorsOfMemory == {into_error(r.err) : r \in {x \in MemResults : ~x.ok}}

\* ----------------------------------------------------------------- claims

\* C1: when no readable entry is labeled "Composite" and some readable entry
\* is labeled "CPU", cpu_temperature returns the reading of a "CPU" entry.
C1_FallbackToCPU ==
    (Resolved /\ Labeled("Composite") = {} /\ Labeled("CPU") # {})
        => \E i \in Labeled("CPU") : temperature = sensors[i].current

\* C2: a read error is skipped and the rest of the stream is consumed: a
\* "Composite" entry after the failed entry is in the map and is selected.
C2_FailureIsolation ==
    (Resolved /\ \E e \in Errors : \E i \in Labeled("Composite") : e < i)
        => /\ pos = Len(sensors)
           /\ "Composite" \in DOMAIN temperature_sensors
           /\ temperature = sensors[Max(Labeled("Composite"))].current

\* C3: with every entry readable and both "Composite" and "CPU" present, in
\* any order, cpu_temperature returns the "Composite" reading, and the
\* selection runs only once the whole stream has been consumed.
C3_CompositePriority ==
    (AllReadable /\ Labeled("Composite") # {} /\ Labeled("CPU") # {})
        => /\ pc = "select" => pos = Len(sensors)
           /\ Resolved =>
                /\ pos = Len(sensors)
                /\ temperature = sensors[Max(Labeled("Composite"))].current

C3_Witness ==
    /\ Resolved
    /\ AllReadable
    /\ \E i \in Labeled("Composite") : \E j \in Labeled("CPU") :
          /\ i < j
          /\ sensors[i].current # sensors[j].current
          /\ temperature = sensors[i].current

\* C4: a failed frequency or memory read ends main with the error: nothing
\* was written in that iteration, no line was rendered for it, and nothing
\* runs afterwards.
C4_FailureSurfaced ==
    /\ failed # "none" =>
          /\ pc = "done"
          /\ main_result # <<>>
          /\ out = <<>>
          /\ lines = tick
    /\ pc = "done" => (failed # "none" /\ ~ENABLED Next)

C4_Witness ==
    /\ pc = "done"
    /\ failed = "memory"
    /\ tick = 1
    /\ lines = 1

\* C5: the error main returns tells which read failed: an error returned for
\* a failed frequency read is none a failed memory read can return, and the
\* other way round.
C5_ErrorIdentifiesMetric ==
    pc = "done" =>
        /\ failed = "frequency" => main_result[1] \notin ErrorsOfMemory
        /\ failed = "memory" => main_result[1] \notin ErrorsOfFrequency

C7_ExactScaling ==
    pc = "flush" =>
        /\ Shown.mhz * 1000000 = cpu_frequency
        /\ Shown.mib * 1048576 = memory_available

\* C7 as amended: the rendered values are the integer quotients: exact for
\* whole multiples of the unit, the fraction cut off otherwise.
C7_TruncatingScaling ==
    pc = "flush" =>
        /\ Shown.mhz * 1000000 <= cpu_frequency
        /\ cpu_frequency < (Shown.mhz + 1) * 1000000
        /\ Shown.mib * 1048576 <= memory_available
        /\ memory_available < (Shown.mib + 1) * 1048576
        /\ cpu_frequency = 1800000000 => Shown.mhz = 1800
        /\ memory_available = 3145728 => Shown.mib = 3

C7_Witness ==
    /\ pc = "flush"
    /\ cpu_frequency = 1400500000
    /\ Shown.mhz = 1400
    /\ memory_available = 537395200
    /\ Shown.mib = 512

\* C8: when no readable entry is labeled "Composite" or "CPU" (an empty
\* stream, other labels, unlabeled entries, which go under "unknown"),
\* cpu_temperature returns 0 degrees Celsius.
C8_Default ==
    (Resolved /\ Labeled("Composite") = {} /\ Labeled("CPU") = {})
        => /\ temperature = 0
           /\ \A i \in Unlabeled :
                i <= pos => /\ "unknown" \in DOMAIN temperature_sensors
                            /\ "" \notin DOMAIN temperature_sensors

C8_Witness ==
    /\ Resolved
    /\ Labeled("Composite") = {}
    /\ Labeled("CPU") = {}
    /\ Unlabeled # {}
    /\ Labeled("Core 0") # {}
    /\ "unknown" \in DOMAIN temperature_sensors
    /\ temperature = 0

\* C9: the map holds, for every label, the reading of the last entry taken
\* under that label, so with several "Composite" entries the last one is
\* returned; the map of a call starts empty, so it holds nothing but
\* readings of the current call.
C9_LastWriteWins ==
    pc \in {"sensors", "select", "mem", "erase", "print", "flush", "sleep"} =>
        /\ pos = 0 => DOMAIN temperature_sensors = {}
        /\ \A k \in DOMAIN temperature_sensors :
              /\ TakenUnder(k) # {}
              /\ temperature_sensors[k] = sensors[Max(TakenUnder(k))].current
        /\ \A i \in 1..pos : sensors[i].ok => KeyOf(i) \in DOMAIN temperature_sensors
        /\ (Resolved /\ TakenUnder("Composite") # {}) =>
              temperature = sensors[Max(TakenUnder("Composite"))].current

C9_Witness ==
    /\ Resolved
    /\ tick = 1
    /\ \E i \in TakenUnder("Composite") : \E j \in TakenUnder("Composite") :
          /\ i < j
          /\ sensors[i].current # sensors[j].current
          /\ j = Max(TakenUnder("Composite"))
          /\ temperature = sensors[j].current

\* C10: an iteration reads, then writes the erase sequence, the text and the
\* carriage return, then flushes, then sleeps; the next iteration's reads
\* start only from the end of the sleep; lines and sleeps alternate; main
\* ends only on a failed read.
StepOrder ==
    /\ pc = "freq" => pc' \in {"temp", "done"}
    /\ pc = "temp" => pc' = "sensors"
    /\ pc = "sensors" => pc' \in {"sensors", "select"}
    /\ pc = "select" => pc' = "mem"
    /\ pc = "mem" => pc' \in {"erase", "done"}
    /\ pc = "erase" => pc' = "print"
    /\ pc = "print" => pc' = "flush"
    /\ pc = "flush" => pc' = "sleep"
    /\ pc = "sleep" => pc' = "freq"
    /\ pc # "done"
    /\ pc' = "freq" => (tick' = tick + 1 /\ lines' = tick')
    /\ pc' = "done" => failed' # "none"
    /\ lines' # lines =>
          /\ pc = "flush"
          /\ lines' = lines + 1
          /\ lines = tick
          /\ out' = <<ERASE_LINE, fmt(cpu_frequency, temperature, memory_available),
                      CR, FLUSH>>
    /\ tick' # tick => (pc = "sleep" /\ lines = tick + 1)

====
